---- MODULE Spec2Model ----
(***************************************************************************)
(* Model of the conversation page (src/src/pages/ConsolePage.tsx): the     *)
(* handlers the page registers on the realtime client, the avatar state    *)
(* machine, the event log and the context lookup.  Every `await` of the    *)
(* source is a suspension point: the handler stops there and a later step  *)
(* resumes it, so other handlers interleave exactly where the source lets  *)
(* them.                                                                   *)
(***************************************************************************)
EXTENDS Integers, Sequences, FiniteSets, TLC

(***************************************************************************)
(* Bounds of the model.                                                    *)
(***************************************************************************)
\* realtime events delivered to the 'realtime.event' handler
MaxEvents == 3

\* 'conversation.updated' events delivered
MaxUpdates == 3

\* 'conversation.interrupted' events delivered
MaxInterrupts == 2

\* conversation items the upstream service speaks of
MaxItems == 2

\* presses and releases of the push-to-talk button
MaxCalls == 2

\* frames the recorder delivers
MaxFrames == 1

\* flips of the manual/vad toggle
MaxSwitches == 3

\* clicks of the connect button
MaxConnects == 1

\* calls of disconnect
MaxDisconnects == 2

\* clicks of an item's delete cross
MaxDeletes == 1

\* tool calls the upstream service asks for amid a disconnect
MaxTools == 1

\* tool calls the upstream service asks for
MaxToolCalls == 2

\* frames sent on the relay connection in each direction
MaxRelayFrames == 2

(***************************************************************************)
(* Event types.  A type is the list of its dot-separated segments, so that *)
(* the handler's t.startsWith(...) tests are computed, not tabulated.      *)
(***************************************************************************)
T_COMMIT == <<"input_audio_buffer", "commit">>

T_TRANSCRIPT == <<"conversation", "item", "input_audio_transcription", "completed">>

T_RESPONSE_CREATED == <<"response", "created">>

T_RESPONSE_COMPLETED == <<"response", "completed">>

T_SESSION_UPDATED == <<"session", "updated">>

EventTypes ==
    {T_COMMIT, T_TRANSCRIPT, T_RESPONSE_CREATED, T_RESPONSE_COMPLETED, T_SESSION_UPDATED}

\* t.startsWith(prefix), prefix ending at a segment boundary
StartsWith(t, prefix) ==
    /\ Len(t) >= Len(prefix)
    /\ SubSeq(t, 1, Len(prefix)) = prefix

(***************************************************************************)
(* Transcripts are strings over a blank and a letter.                      *)
(***************************************************************************)
Transcripts == {<<" ">>, <<" ", "a", " ">>}

RECURSIVE TrimStart(_)
TrimStart(s) ==
    IF s # <<>> /\ Head(s) = " " THEN TrimStart(Tail(s)) ELSE s

RECURSIVE TrimEnd(_)
TrimEnd(s) ==
    IF s # <<>> /\ s[Len(s)] = " " THEN TrimEnd(SubSeq(s, 1, Len(s) - 1)) ELSE s

\* String.prototype.trim
Trim(s) == TrimEnd(TrimStart(s))

\* what the retrieval collaborator answers in data.message
Messages == {"", "ctx"}

AvatarStates == {"idle", "think", "talk"}

\* the keys and values a set_memory call may carry
MemoryKeys == {"favorite_color", "name"}

MemoryValues == {"blue", "red"}

\* the places a get_weather call may ask for
Locations == {"San Francisco", "Paris"}

\* REACT_APP_LOCAL_RELAY_SERVER_URL: unset, or the relay's address
RelayUrls == {"", "http://localhost:8081"}

\* OPENAI_API_KEY in the relay's environment
RelayKey == "sk-relay"

\* localStorage 'tmp::voice_api_key': nothing, a key of the user's, or the
\* very key the relay holds
StoredKeys == {"", "sk-local", RelayKey}

\* what the user types into the prompt: nothing, or a key
PromptAnswers == {"", "sk-typed"}

\* the frames a peer may send
Frames == {"a", "b"}

\* the empty memory map: no key is set
NoMemory == [key \in MemoryKeys |-> "unset"]

VARIABLES
    avatarState,       \* useState<AvatarState>
    avatarTimeoutRef,  \* avatarTimeoutRef.current is non-null
    avatarTimer,       \* the pending window timers: the states they will set, oldest first
    realtimeEvents,    \* the event log
    turnDetection,     \* client.getTurnDetectionType(): "none" (null) or "server_vad"
    arrivals,          \* history: the realtime events delivered, in arrival order
    handler,           \* per arrival: where its 'realtime.event' handler stands
    lookup,            \* per arrival: what the context lookup came to
    logged,            \* history: the arrivals handed to setRealtimeEvents
    sent,              \* history: what the page sent to the session
    conversation,      \* client.conversation.getItems(): the ids, in order
    items,             \* useState<ItemType[]>: the ids, in order
    updates,           \* history: how many 'conversation.updated' events were delivered
    arrived,           \* history, per item: the audio deltas delivered, in arrival order,
                       \* each with whether its track had been stopped by then
    updater,           \* the 'conversation.updated' handlers that reached decode
    queue,             \* player: the chunks appended and not dropped, in arrival order
    played,            \* player: how many chunks of the queue were rendered
    interruptedTrackIds, \* player: the tracks an interrupt stopped
    appended,          \* history, per track: the chunks the player took
    interrupts,        \* the 'conversation.interrupted' handlers, in arrival order
    isRecording,       \* useState(false)
    recorderStatus,    \* wavRecorder.getStatus()
    inputAudioBuffer,  \* client.inputAudioBuffer, in frames
    frames,            \* history: how many frames the recorder delivered
    calls,             \* the startRecording and stopRecording calls, in call order
    isConnected,       \* useState(false)
    canPushToTalk,     \* useState(true)
    sessionOpen,       \* client.isConnected()
    playerOpen,        \* the playback sink is prepared (wavStreamPlayer.connect())
    memoryKv,          \* useState<{[key: string]: any}>({})
    marker,            \* useState<Coordinates | null>(null)
    coords,            \* useState<Coordinates | null>({lat: 37.775593, lng: -122.418137})
    ops,               \* the connect, disconnect, mode switch and delete calls, in call order
    toolCalls,         \* the tool handlers the client invoked, in call order
    boot,              \* the page's mount: the API key and client effects
    relay              \* the relay process and its one accepted connection

pageVars == <<realtimeEvents, arrivals, handler, lookup, logged>>

edgeVars == <<boot, relay>>

avatarVars == <<avatarState, avatarTimeoutRef, avatarTimer>>

playerVars == <<queue, played, interruptedTrackIds, appended>>

itemVars == <<conversation, items, updates, arrived, updater>>

captureVars == <<isRecording, recorderStatus, inputAudioBuffer, frames, calls>>

sessionFlags == <<isConnected, canPushToTalk, sessionOpen, playerOpen>>

toolVars == <<memoryKv, marker, coords, toolCalls>>

recordingVars == <<isRecording, inputAudioBuffer, frames, calls>>

logVars == <<arrivals, handler, lookup, logged>>

sessionVars ==
    <<isConnected, canPushToTalk, sessionOpen, playerOpen, memoryKv, marker, coords, ops,
      toolCalls>>

vars ==
    <<avatarVars, pageVars, turnDetection, sent, itemVars, playerVars, interrupts,
      captureVars, sessionVars, edgeVars>>

\* a message to the session: its kind, the function that sends it and the call
\* of that function it comes from, and what it carries
Msg(type, by, for, text, trackId, offset, at) ==
    [type |-> type, by |-> by, for |-> for, text |-> text, trackId |-> trackId,
     offset |-> offset, at |-> at]

\* a logical clock over arrivals and sends
Now == Len(arrivals) + Len(sent) + 1

(***************************************************************************)
(* Avatar state machine.                                                   *)
(***************************************************************************)
Avatar == [state |-> avatarState, ref |-> avatarTimeoutRef, timer |-> avatarTimer]

\* window.clearTimeout(avatarTimeoutRef.current): the timer the reference
\* names, the newest one, is no longer pending
ClearTimeout(timers) ==
    IF timers = <<>> THEN timers ELSE SubSeq(timers, 1, Len(timers) - 1)

\* setAvatarStateSafely without its clearTimeout of the pending timer
setAvatarStateSafelyNoClear(av, s, holdMs) ==
    IF holdMs > 0
    THEN [av EXCEPT !.ref = TRUE, !.timer = Append(@, s)]
    ELSE [av EXCEPT !.state = s]

\* setAvatarStateSafely(s, holdMs) applied to the avatar record av
setAvatarStateSafely(av, s, holdMs) ==
    LET cleared == IF av.ref
                   THEN [av EXCEPT !.ref = FALSE, !.timer = ClearTimeout(@)]
                   ELSE av
    IN  IF holdMs > 0
        THEN [cleared EXCEPT !.ref = TRUE, !.timer = Append(@, s)]
        ELSE [cleared EXCEPT !.state = s]

SetAvatar(av) ==
    /\ avatarState' = av.state
    /\ avatarTimeoutRef' = av.ref
    /\ avatarTimer' = av.timer

\* the first block of the 'realtime.event' handler
AvatarOnEvent(av, t) ==
    IF t = T_COMMIT \/ t = T_TRANSCRIPT
    THEN setAvatarStateSafely(av, "think", 0)
    ELSE IF StartsWith(t, <<"response">>) \/ StartsWith(t, <<"conversation", "item", "output">>)
    THEN setAvatarStateSafely(av, "talk", 0)
    ELSE IF t = T_RESPONSE_COMPLETED
    THEN setAvatarStateSafely(av, "idle", 300)
    ELSE av

\* a window timer set by setAvatarStateSafely fires
AvatarTimerFires ==
    /\ \E n \in 1..Len(avatarTimer) :
           /\ avatarState' = avatarTimer[n]
           /\ avatarTimer' = SubSeq(avatarTimer, 1, n - 1)
                                \o SubSeq(avatarTimer, n + 1, Len(avatarTimer))
    /\ UNCHANGED <<edgeVars, sessionVars, avatarTimeoutRef, pageVars, turnDetection, sent, itemVars,
                   playerVars, interrupts, captureVars>>

(***************************************************************************)
(* Event log.                                                              *)
(***************************************************************************)
\* LogUpdater without its test of the type: every event is merged into the
\* newest entry
LogUpdaterAnyType(prev, rtEvent) ==
    IF prev # <<>>
    THEN LET lastEvent == prev[Len(prev)]
         IN  SubSeq(prev, 1, Len(prev) - 1) \o <<[lastEvent EXCEPT !.count = @ + 1]>>
    ELSE prev \o <<rtEvent>>

\* the updater handed to setRealtimeEvents; count 0 stands for an unset count
LogUpdater(prev, rtEvent) ==
    IF prev # <<>> /\ prev[Len(prev)].type = rtEvent.type
    THEN LET lastEvent == prev[Len(prev)]
         IN  SubSeq(prev, 1, Len(prev) - 1) \o <<[lastEvent EXCEPT !.count = @ + 1]>>
    ELSE prev \o <<rtEvent>>

\* the log entry made of arrival k, an event of type t
EntryOf(k, t) == [type |-> t, seq |-> k, count |-> 0]

\* the handler's tail: setRealtimeEvents(...) for arrival k
SetRealtimeEvents(k, t) ==
    /\ realtimeEvents' = LogUpdater(realtimeEvents, EntryOf(k, t))
    /\ logged' = logged \cup {k}

(***************************************************************************)
(* What the upstream service may send.  A 'response.created' event names   *)
(* the user turn (the arrival of its completed transcription) it answers,  *)
(* or 0 for a response to no transcribed turn.  In manual mode a turn is   *)
(* answered only once the page has requested a response for it; in         *)
(* automatic mode the service starts the response by itself.  A completed  *)
(* transcription names the commit (its place in sent) whose audio it       *)
(* transcribes, or 0 for audio the page did not commit.                    *)
(***************************************************************************)
Commits == {c \in 1..Len(sent) : sent[c].type = "input_audio_buffer.commit"}

Transcribed(c) ==
    \E j \in 1..Len(arrivals) : arrivals[j].type = T_TRANSCRIPT /\ arrivals[j].turn = c

MayTranscribe(c) == c = 0 \/ (c \in Commits /\ ~Transcribed(c))

Turns == {k \in 1..Len(arrivals) : arrivals[k].type = T_TRANSCRIPT}

Answered(k) ==
    \E j \in 1..Len(arrivals) :
        arrivals[j].type = T_RESPONSE_CREATED /\ arrivals[j].turn = k

Requested(k) ==
    \E i \in 1..Len(sent) : sent[i].type = "response.create" /\ sent[i].for = k

MayAnswer(k) ==
    \/ k = 0
    \/ /\ k \in Turns
       /\ ~Answered(k)
       /\ turnDetection = "server_vad" \/ Requested(k)

(***************************************************************************)
(* client.on('realtime.event', ...)                                        *)
(***************************************************************************)
\* the handler up to its first suspension.  A blank transcript makes
\* injectContext return at once; the handler then resumes in the same task
\* (a microtask), before any other event is dispatched.
RealtimeEvent(t, transcript, turn) ==
    /\ sessionOpen
    /\ Len(arrivals) < MaxEvents
    /\ IF t = T_TRANSCRIPT THEN transcript \in Transcripts ELSE transcript = <<>>
    /\ CASE t = T_RESPONSE_CREATED -> MayAnswer(turn)
         [] t = T_TRANSCRIPT -> MayTranscribe(turn)
         [] OTHER -> turn = 0
    /\ LET k == Len(arrivals) + 1
       IN  /\ arrivals' = Append(arrivals,
                  [type |-> t, transcript |-> transcript, turn |-> turn, at |-> Now])
           /\ SetAvatar(AvatarOnEvent(Avatar, t))
           /\ lookup' = Append(lookup, "none")
           /\ IF t = T_TRANSCRIPT /\ Trim(transcript) # <<>>
              THEN /\ handler' = Append(handler, "fetch")
                   /\ UNCHANGED <<sessionVars, realtimeEvents, logged>>
              ELSE /\ handler' = Append(handler, "done")
                   /\ SetRealtimeEvents(k, t)
    /\ UNCHANGED <<edgeVars, sessionVars, turnDetection, sent, itemVars, playerVars, interrupts, captureVars>>

\* fetch(...) rejects: injectContext throws, and so does the handler
FetchRejects(k) ==
    /\ k \in 1..Len(arrivals)
    /\ handler[k] = "fetch"
    /\ handler' = [handler EXCEPT ![k] = "threw"]
    /\ lookup' = [lookup EXCEPT ![k] = "netfail"]
    /\ UNCHANGED <<edgeVars, sessionVars, avatarVars, realtimeEvents, arrivals, logged, turnDetection, sent,
                   itemVars, playerVars, interrupts, captureVars>>

\* fetch(...) resolves with response.ok = ok
FetchResolves(k, ok) ==
    /\ k \in 1..Len(arrivals)
    /\ handler[k] = "fetch"
    /\ handler' = [handler EXCEPT ![k] = IF ok THEN "json" ELSE "threw"]
    /\ lookup' = [lookup EXCEPT ![k] = IF ok THEN @ ELSE "httperr"]
    /\ UNCHANGED <<edgeVars, sessionVars, avatarVars, realtimeEvents, arrivals, logged, turnDetection, sent,
                   itemVars, playerVars, interrupts, captureVars>>

\* response.json() rejects (the body is no JSON)
JsonRejects(k) ==
    /\ k \in 1..Len(arrivals)
    /\ handler[k] = "json"
    /\ handler' = [handler EXCEPT ![k] = "threw"]
    /\ lookup' = [lookup EXCEPT ![k] = "badjson"]
    /\ UNCHANGED <<edgeVars, sessionVars, avatarVars, realtimeEvents, arrivals, logged, turnDetection, sent,
                   itemVars, playerVars, interrupts, captureVars>>

\* what injectContext sends once data is there
InjectedMessages(k, message) ==
    <<Msg("user_message", "injectContext", k, message, 0, 0, Now)>>
    \o (IF turnDetection = "none"
        THEN <<Msg("response.create", "injectContext", k, "", 0, 0, Now + 1)>>
        ELSE <<>>)

\* response.json() resolves with data.message = message: the rest of
\* injectContext, then the rest of the handler
JsonResolves(k, message) ==
    /\ k \in 1..Len(arrivals)
    /\ handler[k] = "json"
    /\ sent' = sent \o InjectedMessages(k, message)
    /\ SetAvatar(setAvatarStateSafely(Avatar, "think", 0))
    /\ handler' = [handler EXCEPT ![k] = "done"]
    /\ lookup' = [lookup EXCEPT ![k] = IF message = "" THEN "empty" ELSE "text"]
    /\ SetRealtimeEvents(k, arrivals[k].type)
    /\ UNCHANGED <<edgeVars, sessionVars, turnDetection, arrivals, itemVars, playerVars, interrupts, captureVars>>

(***************************************************************************)
(* The playback pipeline (WavStreamPlayer of lib/wavtools).  It holds the  *)
(* chunks appended, in arrival order, each under its track; it renders     *)
(* them in that order; interrupt() stops the track being rendered and      *)
(* tells how much of it was rendered.                                      *)
(***************************************************************************)
ItemIds == 1..MaxItems

Player ==
    [queue |-> queue, played |-> played, interruptedTrackIds |-> interruptedTrackIds,
     appended |-> appended]

SetPlayer(pl) ==
    /\ queue' = pl.queue
    /\ played' = pl.played
    /\ interruptedTrackIds' = pl.interruptedTrackIds
    /\ appended' = pl.appended

\* add16BitPCM without its test of the stopped tracks
add16BitPCMAnyTrack(pl, chunk, trackId) ==
    [pl EXCEPT !.queue = Append(@, [trackId |-> trackId, chunk |-> chunk]),
               !.appended[trackId] = Append(@, chunk)]

\* wavStreamPlayer.add16BitPCM(chunk, trackId): a stopped track takes no more
add16BitPCM(pl, chunk, trackId) ==
    IF trackId \in pl.interruptedTrackIds
    THEN pl
    ELSE [pl EXCEPT !.queue = Append(@, [trackId |-> trackId, chunk |-> chunk]),
                    !.appended[trackId] = Append(@, chunk)]

\* the track being rendered, or 0
Playing(pl) == IF pl.played < Len(pl.queue) THEN pl.queue[pl.played + 1].trackId ELSE 0

\* how many chunks of the track were rendered
OffsetOf(pl, trackId) ==
    Cardinality({i \in 1..pl.played : pl.queue[i].trackId = trackId})

\* the queue without the chunks of the track that are not rendered yet
Stopped(pl, trackId) ==
    LET Other(b) == b.trackId # trackId
    IN  SubSeq(pl.queue, 1, pl.played)
        \o SelectSeq(SubSeq(pl.queue, pl.played + 1, Len(pl.queue)), Other)

\* wavStreamPlayer.interrupt(): the player after the stop, and what it returns
interrupt(pl) ==
    LET trackId == Playing(pl)
    IN  IF trackId = 0
        THEN [player |-> pl, trackId |-> 0, offset |-> 0]
        ELSE [player |-> [pl EXCEPT !.queue = Stopped(pl, trackId),
                                    !.interruptedTrackIds = @ \cup {trackId}],
              trackId |-> trackId,
              offset |-> OffsetOf(pl, trackId)]

\* the player renders the next chunk of its queue
PlayerPlays ==
    /\ played < Len(queue)
    /\ played' = played + 1
    /\ UNCHANGED <<edgeVars, sessionVars, avatarVars, pageVars, turnDetection, sent, itemVars, queue,
                   interruptedTrackIds, appended, interrupts, captureVars>>

(***************************************************************************)
(* client.on('conversation.updated', ...)                                  *)
(***************************************************************************)
\* the client's item list once it holds item id
WithItem(list, id) ==
    IF \E i \in 1..Len(list) : list[i] = id THEN list ELSE Append(list, id)

\* the avatar after the handler's two tests
AvatarOnUpdate(av, hasDelta, status, role) ==
    LET talking == IF hasDelta THEN setAvatarStateSafely(av, "talk", 0) ELSE av
    IN  IF status = "completed" /\ role = "assistant"
        THEN setAvatarStateSafely(talking, "idle", 500)
        ELSE talking

\* PlayerOnUpdate with the chunk put on one track, whatever item owns it
PlayerOnUpdateOneTrack(pl, hasDelta, u, id) ==
    IF hasDelta THEN add16BitPCM(pl, u, 1) ELSE pl

\* the player after the handler's first test; the chunk is named by its update
PlayerOnUpdate(pl, hasDelta, u, id) ==
    IF hasDelta THEN add16BitPCM(pl, u, id) ELSE pl

\* the handler up to WavRecorder.decode, or to its end, for an event about
\* item id that leaves the client's item list as snapshot
UpdatedWith(snapshot, id, hasDelta, status, role, hasAudio) ==
    /\ LET u == updates + 1
       IN  /\ conversation' = snapshot
           /\ updates' = u
           /\ arrived' = IF hasDelta
                         THEN [arrived EXCEPT ![id] = Append(@,
                                  [chunk |-> u, stopped |-> id \in interruptedTrackIds])]
                         ELSE arrived
           /\ SetPlayer(PlayerOnUpdate(Player, hasDelta, u, id))
           /\ SetAvatar(AvatarOnUpdate(Avatar, hasDelta, status, role))
           /\ IF status = "completed" /\ hasAudio
              THEN /\ updater' = Append(updater, [pc |-> "decode", items |-> snapshot])
                   /\ UNCHANGED items
              ELSE /\ items' = snapshot
                   /\ UNCHANGED updater
    /\ UNCHANGED <<edgeVars, sessionVars, pageVars, turnDetection, sent, interrupts, captureVars>>

\* the handler for an event that creates or changes item id.  The upstream
\* service sends audio deltas for assistant items in progress, and an item
\* that got a delta holds audio.
ConversationUpdated(id, hasDelta, status, role, hasAudio) ==
    /\ sessionOpen
    /\ updates < MaxUpdates
    /\ hasDelta => status = "in_progress" /\ role = "assistant" /\ hasAudio
    /\ UpdatedWith(WithItem(conversation, id), id, hasDelta, status, role, hasAudio)

\* WavRecorder.decode resolves: the handler sets the list it read at its start
DecodeResolves(u) ==
    /\ u \in 1..Len(updater)
    /\ updater[u].pc = "decode"
    /\ updater' = [updater EXCEPT ![u] = [pc |-> "done", items |-> <<>>]]
    /\ items' = updater[u].items
    /\ UNCHANGED <<edgeVars, sessionVars, avatarVars, pageVars, turnDetection, sent, conversation, updates,
                   arrived, playerVars, interrupts, captureVars>>

(***************************************************************************)
(* client.on('conversation.interrupted', ...)                              *)
(***************************************************************************)
\* the handler up to its first suspension: the call of interrupt()
ConversationInterrupted ==
    /\ Len(interrupts) < MaxInterrupts
    /\ LET r == interrupt(Player)
       IN  /\ SetPlayer(r.player)
           /\ interrupts' = Append(interrupts,
                  [pc |-> "interrupt", trackId |-> r.trackId, offset |-> r.offset])
    /\ UNCHANGED <<edgeVars, sessionVars, avatarVars, pageVars, turnDetection, sent, itemVars, captureVars>>

\* CancelMessages without its test of trackSampleOffset?.trackId
CancelMessagesUnguarded(by, i, trackSampleOffset) ==
    <<Msg("response.cancel", by, i, "", trackSampleOffset.trackId,
          trackSampleOffset.offset, Now)>>

\* what a caller of interrupt() sends once it has returned trackSampleOffset
CancelMessages(by, i, trackSampleOffset) ==
    IF trackSampleOffset.trackId # 0
    THEN <<Msg("response.cancel", by, i, "", trackSampleOffset.trackId,
               trackSampleOffset.offset, Now)>>
    ELSE <<>>

\* interrupt() has returned: cancel and suspend, or finish
InterruptReturns(i) ==
    /\ i \in 1..Len(interrupts)
    /\ interrupts[i].pc = "interrupt"
    /\ sent' = sent \o CancelMessages("interrupted", i, interrupts[i])
    /\ IF interrupts[i].trackId # 0
       THEN /\ interrupts' = [interrupts EXCEPT ![i].pc = "cancel"]
            /\ UNCHANGED avatarVars
       ELSE /\ interrupts' = [interrupts EXCEPT ![i].pc = "done"]
            /\ SetAvatar(setAvatarStateSafely(Avatar, "idle", 0))
    /\ UNCHANGED <<edgeVars, sessionVars, pageVars, turnDetection, itemVars, playerVars, captureVars>>

\* client.cancelResponse has returned: the handler's last statement
CancelReturns(i) ==
    /\ i \in 1..Len(interrupts)
    /\ interrupts[i].pc = "cancel"
    /\ interrupts' = [interrupts EXCEPT ![i].pc = "done"]
    /\ SetAvatar(setAvatarStateSafely(Avatar, "idle", 0))
    /\ UNCHANGED <<edgeVars, sessionVars, pageVars, turnDetection, sent, itemVars, playerVars, captureVars>>

(***************************************************************************)
(* Push-to-talk.  The capture pipeline (WavRecorder of lib/wavtools)       *)
(* delivers frames while it records; record() and pause() take effect when *)
(* they resolve.                                                           *)
(***************************************************************************)
\* the recorder delivers a frame: client.appendInputAudio(data.mono)
appendInputAudio ==
    /\ recorderStatus = "recording"
    /\ frames < MaxFrames
    /\ frames' = frames + 1
    /\ inputAudioBuffer' = inputAudioBuffer + 1
    /\ UNCHANGED <<edgeVars, sessionVars, avatarVars, pageVars, turnDetection, sent, itemVars, playerVars,
                   interrupts, isRecording, recorderStatus, calls>>

\* the push-to-talk button is rendered
PushToTalkShown == isConnected /\ canPushToTalk

\* startRecording without its call of interrupt(): playback is left alone
startRecordingNoInterrupt ==
    /\ PushToTalkShown
    /\ Len(calls) < MaxCalls
    /\ isRecording' = TRUE
    /\ calls' = Append(calls,
           [kind |-> "start", pc |-> "interrupt", trackId |-> 0, offset |-> 0])
    /\ UNCHANGED <<edgeVars, sessionVars, avatarVars, pageVars, turnDetection, sent, itemVars,
                   playerVars, interrupts, recorderStatus, inputAudioBuffer, frames>>

\* startRecording up to its first suspension: the call of interrupt()
startRecording ==
    /\ PushToTalkShown
    /\ Len(calls) < MaxCalls
    /\ isRecording' = TRUE
    /\ LET r == interrupt(Player)
       IN  /\ SetPlayer(r.player)
           /\ calls' = Append(calls,
                  [kind |-> "start", pc |-> "interrupt", trackId |-> r.trackId,
                   offset |-> r.offset])
    /\ UNCHANGED <<edgeVars, sessionVars, avatarVars, pageVars, turnDetection, sent, itemVars, interrupts,
                   recorderStatus, inputAudioBuffer, frames>>

\* interrupt() has returned: cancel and suspend, or call record() and suspend
StartInterruptReturns(c) ==
    /\ c \in 1..Len(calls)
    /\ calls[c].kind = "start" /\ calls[c].pc = "interrupt"
    /\ sent' = sent \o CancelMessages("startRecording", c, calls[c])
    /\ calls' = [calls EXCEPT ![c].pc = IF calls[c].trackId # 0 THEN "cancel" ELSE "record"]
    /\ UNCHANGED <<edgeVars, sessionVars, avatarVars, pageVars, turnDetection, itemVars, playerVars, interrupts,
                   isRecording, recorderStatus, inputAudioBuffer, frames>>

\* client.cancelResponse has returned: call record() and suspend
StartCancelReturns(c) ==
    /\ c \in 1..Len(calls)
    /\ calls[c].kind = "start" /\ calls[c].pc = "cancel"
    /\ calls' = [calls EXCEPT ![c].pc = "record"]
    /\ UNCHANGED <<edgeVars, sessionVars, avatarVars, pageVars, turnDetection, sent, itemVars, playerVars,
                   interrupts, isRecording, recorderStatus, inputAudioBuffer, frames>>

\* wavRecorder.record has resolved: the last statement of startRecording
RecordReturns(c) ==
    /\ c \in 1..Len(calls)
    /\ calls[c].kind = "start" /\ calls[c].pc = "record"
    /\ recorderStatus' = "recording"
    /\ calls' = [calls EXCEPT ![c].pc = "done"]
    /\ SetAvatar(setAvatarStateSafely(Avatar, "idle", 0))
    /\ UNCHANGED <<edgeVars, sessionVars, pageVars, turnDetection, sent, itemVars, playerVars, interrupts,
                   isRecording, inputAudioBuffer, frames>>

\* stopRecording up to its suspension: the call of pause()
stopRecording ==
    /\ PushToTalkShown
    /\ Len(calls) < MaxCalls
    /\ isRecording' = FALSE
    /\ calls' = Append(calls, [kind |-> "stop", pc |-> "pause", trackId |-> 0, offset |-> 0])
    /\ UNCHANGED <<edgeVars, sessionVars, avatarVars, pageVars, turnDetection, sent, itemVars, playerVars,
                   interrupts, recorderStatus, inputAudioBuffer, frames>>

\* CommitMessages without its test of the buffer's length
CommitMessagesUnguarded(c) ==
    <<Msg("input_audio_buffer.commit", "stopRecording", c, "", 0, 0, Now)>>

\* what stopRecording sends once pause() has resolved
CommitMessages(c) ==
    IF inputAudioBuffer > 0
    THEN <<Msg("input_audio_buffer.commit", "stopRecording", c, "", 0, 0, Now)>>
    ELSE <<>>

\* wavRecorder.pause has resolved: the rest of stopRecording
PauseReturns(c) ==
    /\ c \in 1..Len(calls)
    /\ calls[c].kind = "stop" /\ calls[c].pc = "pause"
    /\ recorderStatus' = "paused"
    /\ sent' = sent \o CommitMessages(c)
    /\ inputAudioBuffer' = 0
    /\ calls' = [calls EXCEPT ![c].pc = "done"]
    /\ SetAvatar(setAvatarStateSafely(Avatar, "think", 0))
    /\ UNCHANGED <<edgeVars, sessionVars, pageVars, turnDetection, itemVars, playerVars, interrupts,
                   isRecording, frames>>

(***************************************************************************)
(* The calls the user makes besides push-to-talk: connect, disconnect, the *)
(* manual/vad toggle and the deletion of an item.  Each call is a record   *)
(* in ops; beside its position it keeps what the page looked like when it  *)
(* was made.                                                               *)
(***************************************************************************)
InFlight(o) == o.pc \notin {"done", "threw"}

\* a call of the user has not ended yet
Busy ==
    \/ \E i \in 1..Len(ops) : InFlight(ops[i])
    \/ \E c \in 1..Len(calls) : calls[c].pc # "done"

\* a handler of the client is suspended
Suspended ==
    \/ \E k \in 1..Len(handler) : handler[k] \in {"fetch", "json"}
    \/ \E u \in 1..Len(updater) : updater[u].pc = "decode"
    \/ \E i \in 1..Len(interrupts) : interrupts[i].pc # "done"
    \/ \E t \in 1..Len(toolCalls) : toolCalls[t].pc \notin {"done", "threw"}

\* what disconnect leaves: nothing connected, nothing held, nothing shown
ResetState ==
    /\ ~isConnected
    /\ ~sessionOpen
    /\ items = <<>>
    /\ realtimeEvents = <<>>
    /\ memoryKv = NoMemory
    /\ marker = "null"
    /\ coords = "default"
    /\ recorderStatus = "ended"
    /\ Playing(Player) = 0
    /\ avatarState = "idle"
    /\ ~avatarTimeoutRef
    /\ avatarTimer = <<>>

\* a call as it starts
NewOp(kind, pc, value) ==
    [kind |-> kind, pc |-> pc, value |-> value,
     quiet |-> ~Busy, calm |-> ~Suspended, reset |-> ResetState,
     ncalls |-> Len(calls), mode |-> turnDetection, status |-> recorderStatus,
     applied |-> "no", trackId |-> 0]

OpsOf(kind) == {i \in 1..Len(ops) : ops[i].kind = kind}

Last(S) == CHOOSE i \in S : \A j \in S : j <= i

(***************************************************************************)
(* changeTurnEndType                                                       *)
(***************************************************************************)
\* the position of the manual/vad toggle: the value it asked for last
Toggle ==
    IF OpsOf("switch") = {} THEN turnDetection ELSE ops[Last(OpsOf("switch"))].value

\* client.updateSession({turn_detection}): what goes to an open session
SessionUpdate(i, value) ==
    IF sessionOpen
    THEN <<Msg("session.update", "changeTurnEndType", i, value, 0, 0, Now)>>
    ELSE <<>>

\* changeTurnEndType without its pause of a recording recorder
changeTurnEndTypeNoPause(value) ==
    /\ Cardinality(OpsOf("switch")) < MaxSwitches
    /\ value # Toggle
    /\ LET i == Len(ops) + 1
           o == [NewOp("switch", "done", value) EXCEPT !.applied = recorderStatus]
       IN  /\ turnDetection' = value
           /\ sent' = sent \o SessionUpdate(i, value)
           /\ IF value = "server_vad" /\ sessionOpen
              THEN /\ ops' = Append(ops, [o EXCEPT !.pc = "record"])
                   /\ UNCHANGED canPushToTalk
              ELSE /\ ops' = Append(ops, o)
                   /\ canPushToTalk' = (value = "none")
    /\ UNCHANGED <<edgeVars, avatarVars, pageVars, itemVars, playerVars, interrupts, captureVars,
                   isConnected, sessionOpen, playerOpen, memoryKv, marker, coords, toolCalls>>

\* changeTurnEndType(value) up to its first suspension, or to its end
changeTurnEndType(value) ==
    /\ Cardinality(OpsOf("switch")) < MaxSwitches
    /\ value # Toggle
    /\ LET i == Len(ops) + 1
           o == [NewOp("switch", "done", value) EXCEPT !.applied = recorderStatus]
       IN  IF value = "none" /\ recorderStatus = "recording"
           THEN /\ ops' = Append(ops, NewOp("switch", "pause", value))
                /\ UNCHANGED <<turnDetection, sent, canPushToTalk>>
           ELSE /\ turnDetection' = value
                /\ sent' = sent \o SessionUpdate(i, value)
                /\ IF value = "server_vad" /\ sessionOpen
                   THEN /\ ops' = Append(ops, [o EXCEPT !.pc = "record"])
                        /\ UNCHANGED canPushToTalk
                   ELSE /\ ops' = Append(ops, o)
                        /\ canPushToTalk' = (value = "none")
    /\ UNCHANGED <<edgeVars, avatarVars, pageVars, itemVars, playerVars, interrupts, captureVars,
                   isConnected, sessionOpen, playerOpen, memoryKv, marker, coords, toolCalls>>

\* wavRecorder.pause has resolved: the rest of changeTurnEndType('none')
SwitchPauseReturns(i) ==
    /\ i \in 1..Len(ops)
    /\ ops[i].kind = "switch" /\ ops[i].pc = "pause"
    /\ recorderStatus' = "paused"
    /\ turnDetection' = ops[i].value
    /\ sent' = sent \o SessionUpdate(i, ops[i].value)
    /\ ops' = [ops EXCEPT ![i].pc = "done", ![i].applied = "paused"]
    /\ canPushToTalk' = (ops[i].value = "none")
    /\ UNCHANGED <<edgeVars, avatarVars, pageVars, itemVars, playerVars, interrupts, isRecording,
                   inputAudioBuffer, frames, calls, isConnected, sessionOpen, playerOpen,
                   memoryKv, marker, coords, toolCalls>>

\* wavRecorder.record has resolved: the rest of changeTurnEndType('server_vad')
SwitchRecordReturns(i) ==
    /\ i \in 1..Len(ops)
    /\ ops[i].kind = "switch" /\ ops[i].pc = "record"
    /\ recorderStatus' = "recording"
    /\ ops' = [ops EXCEPT ![i].pc = "done"]
    /\ canPushToTalk' = (ops[i].value = "none")
    /\ UNCHANGED <<edgeVars, avatarVars, pageVars, turnDetection, sent, itemVars, playerVars,
                   interrupts, isRecording, inputAudioBuffer, frames, calls, isConnected,
                   sessionOpen, playerOpen, memoryKv, marker, coords, toolCalls>>

\* wavRecorder.pause or wavRecorder.record has rejected: changeTurnEndType
\* ends there, with what it had done before the await
SwitchRejects(i, pc) ==
    /\ i \in 1..Len(ops)
    /\ ops[i].kind = "switch" /\ ops[i].pc = pc
    /\ ops' = [ops EXCEPT ![i].pc = "threw"]
    /\ UNCHANGED <<edgeVars, avatarVars, pageVars, turnDetection, sent, itemVars, playerVars,
                   interrupts, captureVars, sessionFlags, toolVars>>

\* wavRecorder.pause has rejected in changeTurnEndType('none')
SwitchPauseRejects(i) == SwitchRejects(i, "pause")

\* wavRecorder.record has rejected in changeTurnEndType('server_vad')
SwitchRecordRejects(i) == SwitchRejects(i, "record")

(***************************************************************************)
(* connectConversation.  The capture pipeline's begin(), the playback      *)
(* pipeline's connect() and the client's connect() each resolve or reject. *)
(***************************************************************************)
\* the connect button is clicked: connectConversation up to wavRecorder.begin()
connectConversation ==
    /\ ~isConnected
    /\ Cardinality(OpsOf("connect")) < MaxConnects
    /\ ops' = Append(ops, NewOp("connect", "begin", ""))
    /\ UNCHANGED <<edgeVars, avatarVars, pageVars, turnDetection, sent, itemVars, playerVars,
                   interrupts, captureVars, sessionFlags, toolVars>>

\* wavRecorder.begin has resolved: the device is acquired, capture is paused
BeginResolves(i) ==
    /\ i \in 1..Len(ops)
    /\ ops[i].kind = "connect" /\ ops[i].pc = "begin"
    /\ recorderStatus' = "paused"
    /\ ops' = [ops EXCEPT ![i].pc = "sink"]
    /\ UNCHANGED <<edgeVars, avatarVars, pageVars, turnDetection, sent, itemVars, playerVars,
                   interrupts, recordingVars, sessionFlags, toolVars>>

\* an await of connectConversation rejects: the call throws there
ConnectRejects(i, pc) ==
    /\ i \in 1..Len(ops)
    /\ ops[i].kind = "connect" /\ ops[i].pc = pc
    /\ ops' = [ops EXCEPT ![i].pc = "threw"]
    /\ UNCHANGED <<edgeVars, avatarVars, pageVars, turnDetection, sent, itemVars, playerVars,
                   interrupts, captureVars, sessionFlags, toolVars>>

\* wavRecorder.begin rejects: the device is not available
BeginRejects(i) == ConnectRejects(i, "begin")

\* wavStreamPlayer.connect has resolved: the output sink is prepared
SinkResolves(i) ==
    /\ i \in 1..Len(ops)
    /\ ops[i].kind = "connect" /\ ops[i].pc = "sink"
    /\ playerOpen' = TRUE
    /\ ops' = [ops EXCEPT ![i].pc = "open"]
    /\ UNCHANGED <<edgeVars, avatarVars, pageVars, turnDetection, sent, itemVars, playerVars,
                   interrupts, captureVars, isConnected, canPushToTalk, sessionOpen,
                   toolVars>>

\* wavStreamPlayer.connect rejects
SinkRejects(i) == ConnectRejects(i, "sink")

\* the initial greeting
Greeting(i) == <<Msg("user_message", "connectConversation", i, "Hello!", 0, 0, Now)>>

\* the test of the mode at the end of connectConversation, always true
ConnectRecordsAlways == TRUE

\* the test of the mode at the end of connectConversation
ConnectRecords == turnDetection = "server_vad"

\* client.connect has resolved: the rest of connectConversation, up to
\* wavRecorder.record in automatic mode
OpenResolves(i) ==
    /\ i \in 1..Len(ops)
    /\ ops[i].kind = "connect" /\ ops[i].pc = "open"
    /\ sessionOpen' = TRUE
    /\ sent' = sent \o Greeting(i)
    /\ isConnected' = TRUE
    /\ realtimeEvents' = <<>>
    /\ items' = conversation
    /\ ops' = [ops EXCEPT ![i].pc = IF ConnectRecords THEN "record" ELSE "done"]
    /\ UNCHANGED <<edgeVars, avatarVars, logVars, turnDetection, conversation, updates, arrived,
                   updater, playerVars, interrupts, captureVars, canPushToTalk, playerOpen,
                   toolVars>>

\* client.connect rejects
OpenRejects(i) == ConnectRejects(i, "open")

\* wavRecorder.record has resolved: the end of connectConversation
ConnectRecordReturns(i) ==
    /\ i \in 1..Len(ops)
    /\ ops[i].kind = "connect" /\ ops[i].pc = "record"
    /\ recorderStatus' = "recording"
    /\ ops' = [ops EXCEPT ![i].pc = "done"]
    /\ UNCHANGED <<edgeVars, avatarVars, pageVars, turnDetection, sent, itemVars, playerVars,
                   interrupts, recordingVars, sessionFlags, toolVars>>

(***************************************************************************)
(* disconnectConversation.  The button calls it while the page is          *)
(* connected; its contract covers a call in any state, so the model lets   *)
(* it be called in any state.                                              *)
(***************************************************************************)
\* disconnectConversation without setMemoryKv({})
disconnectConversationKeepsMemory ==
    /\ Cardinality(OpsOf("disconnect")) < MaxDisconnects
    /\ isConnected' = FALSE
    /\ realtimeEvents' = <<>>
    /\ items' = <<>>
    /\ coords' = "default"
    /\ marker' = "null"
    /\ sessionOpen' = FALSE
    /\ conversation' = <<>>
    /\ ops' = Append(ops, NewOp("disconnect", "end", ""))
    /\ UNCHANGED <<edgeVars, avatarVars, logVars, turnDetection, sent, updates, arrived, updater,
                   playerVars, interrupts, captureVars, canPushToTalk, playerOpen,
                   toolCalls, memoryKv>>

\* disconnectConversation up to wavRecorder.end(): the page state is reset
\* and client.disconnect() closes the session and clears the client's items
disconnectConversation ==
    /\ Cardinality(OpsOf("disconnect")) < MaxDisconnects
    /\ isConnected' = FALSE
    /\ realtimeEvents' = <<>>
    /\ items' = <<>>
    /\ memoryKv' = NoMemory
    /\ coords' = "default"
    /\ marker' = "null"
    /\ sessionOpen' = FALSE
    /\ conversation' = <<>>
    /\ ops' = Append(ops, NewOp("disconnect", "end", ""))
    /\ UNCHANGED <<edgeVars, avatarVars, logVars, turnDetection, sent, updates, arrived, updater,
                   playerVars, interrupts, captureVars, canPushToTalk, playerOpen,
                   toolCalls>>

\* wavRecorder.end has resolved: the device is released; the call of
\* wavStreamPlayer.interrupt()
DisconnectEndReturns(i) ==
    /\ i \in 1..Len(ops)
    /\ ops[i].kind = "disconnect" /\ ops[i].pc = "end"
    /\ recorderStatus' = "ended"
    /\ LET r == interrupt(Player)
       IN  /\ SetPlayer(r.player)
           /\ ops' = [ops EXCEPT ![i].pc = "interrupt", ![i].trackId = r.trackId]
    /\ UNCHANGED <<edgeVars, avatarVars, pageVars, turnDetection, sent, itemVars, interrupts,
                   recordingVars, sessionFlags, toolVars>>

\* interrupt() has returned: the last statement of disconnectConversation
DisconnectInterruptReturns(i) ==
    /\ i \in 1..Len(ops)
    /\ ops[i].kind = "disconnect" /\ ops[i].pc = "interrupt"
    /\ SetAvatar(setAvatarStateSafely(Avatar, "idle", 0))
    /\ ops' = [ops EXCEPT ![i].pc = "done"]
    /\ UNCHANGED <<edgeVars, pageVars, turnDetection, sent, itemVars, playerVars, interrupts,
                   captureVars, sessionFlags, toolVars>>

(***************************************************************************)
(* Tools.  The client calls a tool's handler when the upstream service     *)
(* asks for it.                                                            *)
(***************************************************************************)
\* fewer than n tool calls were made
ToolsBelow(n) == Len(toolCalls) < n

\* the disconnects invoked so far
Epoch == Cardinality(OpsOf("disconnect"))

\* the set_memory handler with the map of the render that registered it in
\* place of the updater's argument
set_memoryStale(key, value) ==
    /\ sessionOpen
    /\ ToolsBelow(MaxToolCalls)
    /\ memoryKv' = [NoMemory EXCEPT ![key] = value]
    /\ toolCalls' = Append(toolCalls, [name |-> "set_memory", pc |-> "done", key |-> key,
                                       value |-> value, result |-> "ok", epoch |-> Epoch])
    /\ UNCHANGED <<edgeVars, avatarVars, pageVars, turnDetection, sent, itemVars, playerVars,
                   interrupts, captureVars, sessionFlags, marker, coords, ops>>

\* the set_memory handler: setMemoryKv((kv) => ({...kv, [key]: value})) and
\* the return of {ok: true}
set_memory(key, value) ==
    /\ sessionOpen
    /\ ToolsBelow(MaxToolCalls)
    /\ memoryKv' = [memoryKv EXCEPT ![key] = value]
    /\ toolCalls' = Append(toolCalls, [name |-> "set_memory", pc |-> "done", key |-> key,
                                       value |-> value, result |-> "ok", epoch |-> Epoch])
    /\ UNCHANGED <<edgeVars, avatarVars, pageVars, turnDetection, sent, itemVars, playerVars,
                   interrupts, captureVars, sessionFlags, marker, coords, ops>>

\* the marker of a place once the forecast is known: the place with
\* temperature and wind speed, each a value with its units
WithWeather(location) == location \o " with weather"

\* the get_weather handler up to its fetch: the marker and the map go to the
\* place asked for
get_weather(location) ==
    /\ sessionOpen
    /\ ToolsBelow(MaxToolCalls)
    /\ marker' = location
    /\ coords' = location
    /\ toolCalls' = Append(toolCalls, [name |-> "get_weather", pc |-> "fetch",
                                       location |-> location, result |-> "pending"])
    /\ UNCHANGED <<edgeVars, avatarVars, pageVars, turnDetection, sent, itemVars, playerVars,
                   interrupts, captureVars, sessionFlags, memoryKv, ops>>

\* the fetch of the forecast resolves, or rejects and the handler throws:
\* the tool call ends with an error result
WeatherFetchSettles(t, ok) ==
    /\ t \in 1..Len(toolCalls)
    /\ toolCalls[t].name = "get_weather" /\ toolCalls[t].pc = "fetch"
    /\ toolCalls' = [toolCalls EXCEPT ![t].pc = IF ok THEN "json" ELSE "threw",
                                      ![t].result = IF ok THEN @ ELSE "error"]
    /\ UNCHANGED <<edgeVars, avatarVars, pageVars, turnDetection, sent, itemVars, playerVars,
                   interrupts, captureVars, sessionFlags, memoryKv, marker, coords, ops>>

\* result.json() has resolved with a forecast, but the marker is set
\* without temperature and wind speed
WeatherJsonResolvesBare(t) ==
    /\ t \in 1..Len(toolCalls)
    /\ toolCalls[t].name = "get_weather" /\ toolCalls[t].pc = "json"
    /\ marker' = toolCalls[t].location
    /\ toolCalls' = [toolCalls EXCEPT ![t].pc = "done", ![t].result = "forecast"]
    /\ UNCHANGED <<edgeVars, avatarVars, pageVars, turnDetection, sent, itemVars, playerVars,
                   interrupts, captureVars, sessionFlags, memoryKv, coords, ops>>

\* result.json() has resolved with a forecast: the marker gets temperature
\* and wind speed, and the forecast is the tool call's result
WeatherJsonResolves(t) ==
    /\ t \in 1..Len(toolCalls)
    /\ toolCalls[t].name = "get_weather" /\ toolCalls[t].pc = "json"
    /\ marker' = WithWeather(toolCalls[t].location)
    /\ toolCalls' = [toolCalls EXCEPT ![t].pc = "done", ![t].result = "forecast"]
    /\ UNCHANGED <<edgeVars, avatarVars, pageVars, turnDetection, sent, itemVars, playerVars,
                   interrupts, captureVars, sessionFlags, memoryKv, coords, ops>>

\* result.json() rejects, or resolves with a body that has no forecast so
\* that reading json.current throws: the handler throws
WeatherJsonFails(t) ==
    /\ t \in 1..Len(toolCalls)
    /\ toolCalls[t].name = "get_weather" /\ toolCalls[t].pc = "json"
    /\ toolCalls' = [toolCalls EXCEPT ![t].pc = "threw", ![t].result = "error"]
    /\ UNCHANGED <<edgeVars, avatarVars, pageVars, turnDetection, sent, itemVars, playerVars,
                   interrupts, captureVars, sessionFlags, memoryKv, marker, coords, ops>>

(***************************************************************************)
(* deleteConversationItem                                                  *)
(***************************************************************************)
\* the list without the entries of item id
Without(list, id) ==
    LET Other(x) == x # id IN SelectSeq(list, Other)

InList(list, id) == \E n \in 1..Len(list) : list[n] = id

\* the deletion requests sent for item id
DeleteRequests(s, id) ==
    {m \in 1..Len(s) : s[m].type = "conversation.item.delete" /\ s[m].trackId = id}

\* the cross of a rendered item is clicked: client.deleteItem(id), which
\* sends the request on an open session and throws on a closed one
deleteConversationItem(id) ==
    /\ InList(items, id)
    /\ Cardinality(OpsOf("delete")) < MaxDeletes
    /\ IF sessionOpen
       THEN /\ sent' = sent \o <<Msg("conversation.item.delete", "deleteConversationItem",
                                      Len(ops) + 1, "", id, 0, Now)>>
            /\ ops' = Append(ops, NewOp("delete", "done", id))
       ELSE /\ ops' = Append(ops, NewOp("delete", "threw", id))
            /\ UNCHANGED sent
    /\ UNCHANGED <<edgeVars, avatarVars, pageVars, turnDetection, itemVars, playerVars, interrupts,
                   captureVars, sessionFlags, toolVars>>

\* the upstream service reports item id deleted: the client drops it from
\* its list and calls the 'conversation.updated' handler with the item
ItemDeleted(id, status, role, hasAudio) ==
    /\ sessionOpen
    /\ updates < MaxUpdates
    /\ DeleteRequests(sent, id) # {}
    /\ InList(conversation, id)
    /\ UpdatedWith(Without(conversation, id), id, FALSE, status, role, hasAudio)

(***************************************************************************)
(* The mount of the page: the effect that initialises the API key and the  *)
(* effect that creates the client, which runs again when apiKey changes.   *)
(***************************************************************************)
NoClient == [made |-> FALSE, url |-> "", apiKey |-> ""]

\* the page before its effects run
Unmounted(url, stored) ==
    [url |-> url, stored |-> stored, apiKey |-> "", pending |-> "", prompted |-> FALSE,
     client |-> NoClient, pc |-> "keyEffect"]

\* the client's configuration with the stored key passed along with the url
ClientConfigWithKey(url, apiKey) ==
    [made |-> TRUE, url |-> url, apiKey |-> apiKey]

\* new RealtimeClient(LOCAL_RELAY_SERVER_URL ? {url} : {apiKey, ...})
ClientConfig(url, apiKey) ==
    IF url # ""
    THEN [made |-> TRUE, url |-> url, apiKey |-> ""]
    ELSE [made |-> TRUE, url |-> "", apiKey |-> apiKey]

\* the effect 'Init API key': the stored key becomes the state, and the
\* user is asked for one when there is neither a relay nor a stored key
InitApiKey(answer) ==
    /\ boot.pc = "keyEffect"
    /\ LET storedApiKey == boot.stored
           asks == boot.url = "" /\ storedApiKey = ""
           newApiKey == IF asks THEN answer ELSE ""
       IN  /\ ~asks => answer = ""
           /\ boot' = [boot EXCEPT
                  !.prompted = asks,
                  !.stored = IF newApiKey # "" THEN newApiKey ELSE @,
                  !.pending = IF newApiKey # "" THEN newApiKey ELSE storedApiKey,
                  !.pc = "clientEffect"]
    /\ UNCHANGED <<avatarVars, pageVars, turnDetection, sent, itemVars, playerVars,
                   interrupts, captureVars, sessionVars, relay>>

\* the effect 'Init client when key available', with the apiKey of the
\* render it belongs to
InitClient ==
    /\ boot.pc = "clientEffect"
    /\ boot' = [boot EXCEPT
           !.client = IF boot.apiKey # "" \/ boot.url # ""
                      THEN ClientConfig(boot.url, boot.apiKey)
                      ELSE @,
           !.pc = IF boot.pending # boot.apiKey THEN "render" ELSE "mounted"]
    /\ UNCHANGED <<avatarVars, pageVars, turnDetection, sent, itemVars, playerVars,
                   interrupts, captureVars, sessionVars, relay>>

\* the render after setApiKey: apiKey has changed, the client effect is due
Render ==
    /\ boot.pc = "render"
    /\ boot' = [boot EXCEPT !.apiKey = boot.pending, !.pc = "clientEffect"]
    /\ UNCHANGED <<avatarVars, pageVars, turnDetection, sent, itemVars, playerVars,
                   interrupts, captureVars, sessionVars, relay>>

\* the page mounted with a relay configured and nothing stored
Mounted ==
    [Unmounted("http://localhost:8081", "") EXCEPT
        !.client = ClientConfig("http://localhost:8081", ""), !.pc = "mounted"]

(***************************************************************************)
(* The relay process: the entry point reads the credential and listens;    *)
(* the relay accepts a connection, opens the outbound leg with the         *)
(* credential and copies frames in both directions.                        *)
(***************************************************************************)
\* the relay process before relay.listen
RelayOff ==
    [listening |-> FALSE, credential |-> "", conn |-> "none", inboundAuth |-> "",
     outboundAuth |-> "", sentUp |-> <<>>, inQ |-> <<>>, gotUp |-> <<>>,
     sentDown |-> <<>>, outQ |-> <<>>, gotDown |-> <<>>]

\* new RealtimeRelay(OPENAI_API_KEY) and relay.listen(PORT)
RelayStarted == [RelayOff EXCEPT !.listening = TRUE, !.credential = RelayKey]

RelayListens ==
    /\ ~relay.listening
    /\ relay' = RelayStarted
    /\ UNCHANGED <<avatarVars, pageVars, turnDetection, sent, itemVars, playerVars,
                   interrupts, captureVars, sessionVars, boot>>

\* the relay accepts the connection of the page's client, which carries what
\* the client was configured with
RelayAccepts ==
    /\ relay.listening /\ relay.conn = "none"
    /\ boot.client.made /\ boot.client.url # ""
    /\ relay' = [relay EXCEPT !.conn = "accepted", !.inboundAuth = boot.client.apiKey]
    /\ UNCHANGED <<avatarVars, pageVars, turnDetection, sent, itemVars, playerVars,
                   interrupts, captureVars, sessionVars, boot>>

\* the outbound connection is open: the credential is attached to it
OutboundOpens ==
    /\ relay.conn = "accepted"
    /\ relay' = [relay EXCEPT !.conn = "open", !.outboundAuth = relay.credential]
    /\ UNCHANGED <<avatarVars, pageVars, turnDetection, sent, itemVars, playerVars,
                   interrupts, captureVars, sessionVars, boot>>

\* the client sends a frame on the inbound leg
ClientSends(f) ==
    /\ relay.conn \in {"accepted", "open"}
    /\ Len(relay.sentUp) < MaxRelayFrames
    /\ relay' = [relay EXCEPT !.sentUp = Append(@, f), !.inQ = Append(@, f)]
    /\ UNCHANGED <<avatarVars, pageVars, turnDetection, sent, itemVars, playerVars,
                   interrupts, captureVars, sessionVars, boot>>

\* the upstream service sends a frame on the outbound leg
UpstreamSends(f) ==
    /\ relay.conn = "open"
    /\ Len(relay.sentDown) < MaxRelayFrames
    /\ relay' = [relay EXCEPT !.sentDown = Append(@, f), !.outQ = Append(@, f)]
    /\ UNCHANGED <<avatarVars, pageVars, turnDetection, sent, itemVars, playerVars,
                   interrupts, captureVars, sessionVars, boot>>

\* the inbound-to-outbound loop that takes the newest frame first
ForwardUpNewest ==
    /\ relay.conn = "open" /\ relay.inQ # <<>>
    /\ relay' = [relay EXCEPT !.gotUp = Append(@, relay.inQ[Len(relay.inQ)]),
                              !.inQ = SubSeq(@, 1, Len(@) - 1)]
    /\ UNCHANGED <<avatarVars, pageVars, turnDetection, sent, itemVars, playerVars,
                   interrupts, captureVars, sessionVars, boot>>

\* the inbound-to-outbound loop copies the next frame as it is
ForwardUp ==
    /\ relay.conn = "open" /\ relay.inQ # <<>>
    /\ relay' = [relay EXCEPT !.gotUp = Append(@, Head(relay.inQ)), !.inQ = Tail(@)]
    /\ UNCHANGED <<avatarVars, pageVars, turnDetection, sent, itemVars, playerVars,
                   interrupts, captureVars, sessionVars, boot>>

\* the outbound-to-inbound loop copies the next frame as it is
ForwardDown ==
    /\ relay.conn = "open" /\ relay.outQ # <<>>
    /\ relay' = [relay EXCEPT !.gotDown = Append(@, Head(relay.outQ)), !.outQ = Tail(@)]
    /\ UNCHANGED <<avatarVars, pageVars, turnDetection, sent, itemVars, playerVars,
                   interrupts, captureVars, sessionVars, boot>>

\* either leg closes or fails: the relay closes the other
RelayCloses ==
    /\ relay.conn \in {"accepted", "open"}
    /\ relay' = [relay EXCEPT !.conn = "closed"]
    /\ UNCHANGED <<avatarVars, pageVars, turnDetection, sent, itemVars, playerVars,
                   interrupts, captureVars, sessionVars, boot>>

(***************************************************************************)
(* The page as constructed: nothing connected, the toggle at mode.         *)
(***************************************************************************)
PageConstructed(mode) ==
    /\ avatarState = "idle"
    /\ avatarTimeoutRef = FALSE
    /\ avatarTimer = <<>>
    /\ realtimeEvents = <<>>
    /\ turnDetection = mode
    /\ arrivals = <<>>
    /\ handler = <<>>
    /\ lookup = <<>>
    /\ logged = {}
    /\ sent = <<>>
    /\ conversation = <<>>
    /\ items = <<>>
    /\ updates = 0
    /\ arrived = [id \in ItemIds |-> <<>>]
    /\ updater = <<>>
    /\ queue = <<>>
    /\ played = 0
    /\ interruptedTrackIds = {}
    /\ appended = [id \in ItemIds |-> <<>>]
    /\ interrupts = <<>>
    /\ isRecording = FALSE
    /\ recorderStatus = "ended"
    /\ inputAudioBuffer = 0
    /\ frames = 0
    /\ calls = <<>>
    /\ isConnected = FALSE
    /\ canPushToTalk = (mode = "none")
    /\ sessionOpen = FALSE
    /\ playerOpen = FALSE
    /\ memoryKv = NoMemory
    /\ marker = "null"
    /\ coords = "default"
    /\ ops = <<>>
    /\ toolCalls = <<>>

\* the page mounted against a relay that listens
Constructed(mode) ==
    /\ PageConstructed(mode)
    /\ boot = Mounted
    /\ relay = RelayStarted

(***************************************************************************)
(* The page connected, before any event.                                   *)
(***************************************************************************)
Connected(mode) ==
    /\ avatarState = "idle"
    /\ avatarTimeoutRef = FALSE
    /\ avatarTimer = <<>>
    /\ realtimeEvents = <<>>
    /\ turnDetection = mode
    /\ arrivals = <<>>
    /\ handler = <<>>
    /\ lookup = <<>>
    /\ logged = {}
    /\ sent = <<>>
    /\ conversation = <<>>
    /\ items = <<>>
    /\ updates = 0
    /\ arrived = [id \in ItemIds |-> <<>>]
    /\ updater = <<>>
    /\ queue = <<>>
    /\ played = 0
    /\ interruptedTrackIds = {}
    /\ appended = [id \in ItemIds |-> <<>>]
    /\ interrupts = <<>>
    /\ isRecording = FALSE
    /\ recorderStatus = IF mode = "server_vad" THEN "recording" ELSE "paused"
    /\ inputAudioBuffer = 0
    /\ frames = 0
    /\ calls = <<>>
    /\ isConnected = TRUE
    /\ canPushToTalk = (mode = "none")
    /\ sessionOpen = TRUE
    /\ playerOpen = TRUE
    /\ memoryKv = NoMemory
    /\ marker = "null"
    /\ coords = "default"
    /\ ops = <<>>
    /\ toolCalls = <<>>
    /\ boot = Mounted
    /\ relay = RelayStarted

(***************************************************************************)
(* The event stream and the context lookup, in either mode.                *)
(***************************************************************************)
Init == \E mode \in {"none", "server_vad"} : Connected(mode)

Next ==
    \/ \E t \in EventTypes, transcript \in Transcripts \cup {<<>>}, turn \in 0..MaxEvents :
           RealtimeEvent(t, transcript, turn)
    \/ \E k \in 1..MaxEvents : FetchRejects(k)
    \/ \E k \in 1..MaxEvents, ok \in BOOLEAN : FetchResolves(k, ok)
    \/ \E k \in 1..MaxEvents : JsonRejects(k)
    \/ \E k \in 1..MaxEvents, message \in Messages : JsonResolves(k, message)

Spec == Init /\ [][Next]_vars

(***************************************************************************)
(* The response stream: item updates, playback and interruption.           *)
(***************************************************************************)
InitAudio == Connected("server_vad")

NextAudio ==
    \/ \E id \in ItemIds, hasDelta \in BOOLEAN, status \in {"in_progress", "completed"},
          role \in {"user", "assistant"}, hasAudio \in BOOLEAN :
           ConversationUpdated(id, hasDelta, status, role, hasAudio)
    \/ \E u \in 1..MaxUpdates : DecodeResolves(u)
    \/ PlayerPlays
    \/ ConversationInterrupted
    \/ \E i \in 1..MaxInterrupts : InterruptReturns(i)
    \/ \E i \in 1..MaxInterrupts : CancelReturns(i)
    \/ AvatarTimerFires

SpecAudio == InitAudio /\ [][NextAudio]_vars

(***************************************************************************)
(* Manual mode: push-to-talk over a response being played, the             *)
(* transcription of the committed audio and its context lookup.            *)
(***************************************************************************)
InitManual == Connected("none")

NextManual ==
    \/ startRecording
    \/ \E c \in 1..MaxCalls : StartInterruptReturns(c)
    \/ \E c \in 1..MaxCalls : StartCancelReturns(c)
    \/ \E c \in 1..MaxCalls : RecordReturns(c)
    \/ appendInputAudio
    \/ stopRecording
    \/ \E c \in 1..MaxCalls : PauseReturns(c)
    \/ \E id \in ItemIds : ConversationUpdated(id, TRUE, "in_progress", "assistant", TRUE)
    \/ PlayerPlays
    \/ \E transcript \in Transcripts, c \in 1..(2 * MaxCalls) :
           RealtimeEvent(T_TRANSCRIPT, transcript, c)
    \/ \E k \in 1..MaxEvents : FetchRejects(k)
    \/ \E k \in 1..MaxEvents, ok \in BOOLEAN : FetchResolves(k, ok)
    \/ \E k \in 1..MaxEvents : JsonRejects(k)
    \/ \E k \in 1..MaxEvents, message \in Messages : JsonResolves(k, message)

SpecManual == InitManual /\ [][NextManual]_vars

(***************************************************************************)
(* Manual mode: push-to-talk over a response being played.                 *)
(***************************************************************************)
NextTalk ==
    \/ startRecording
    \/ \E c \in 1..MaxCalls : StartInterruptReturns(c)
    \/ \E c \in 1..MaxCalls : StartCancelReturns(c)
    \/ \E c \in 1..MaxCalls : RecordReturns(c)
    \/ appendInputAudio
    \/ stopRecording
    \/ \E c \in 1..MaxCalls : PauseReturns(c)
    \/ \E id \in ItemIds : ConversationUpdated(id, TRUE, "in_progress", "assistant", TRUE)
    \/ PlayerPlays

SpecTalk == InitManual /\ [][NextTalk]_vars

(***************************************************************************)
(* The manual/vad toggle and push-to-talk, connected or not.               *)
(***************************************************************************)
Modes == {"none", "server_vad"}

InitMode == Constructed("none") \/ Connected("none")

NextMode ==
    \/ \E value \in Modes : changeTurnEndType(value)
    \/ \E i \in 1..MaxSwitches : SwitchPauseReturns(i)
    \/ \E i \in 1..MaxSwitches : SwitchRecordReturns(i)
    \/ startRecording
    \/ \E c \in 1..MaxCalls : StartInterruptReturns(c)
    \/ \E c \in 1..MaxCalls : RecordReturns(c)
    \/ appendInputAudio
    \/ stopRecording
    \/ \E c \in 1..MaxCalls : PauseReturns(c)

SpecMode == InitMode /\ [][NextMode]_vars

(***************************************************************************)
(* Connect and disconnect, from the page as constructed, in either mode.   *)
(***************************************************************************)
OpIds == 1..(MaxSwitches + MaxConnects + MaxDisconnects + MaxDeletes)

InitConnect == \E mode \in Modes : Constructed(mode)

NextConnect ==
    \/ connectConversation
    \/ \E i \in OpIds : BeginResolves(i)
    \/ \E i \in OpIds : BeginRejects(i)
    \/ \E i \in OpIds : SinkResolves(i)
    \/ \E i \in OpIds : SinkRejects(i)
    \/ \E i \in OpIds : OpenResolves(i)
    \/ \E i \in OpIds : OpenRejects(i)
    \/ \E i \in OpIds : ConnectRecordReturns(i)
    \/ disconnectConversation
    \/ \E i \in OpIds : DisconnectEndReturns(i)
    \/ \E i \in OpIds : DisconnectInterruptReturns(i)

SpecConnect == InitConnect /\ [][NextConnect]_vars

(***************************************************************************)
(* Disconnect on a connected page, amid the response stream and the tools. *)
(***************************************************************************)
InitSession == \E mode \in Modes : Connected(mode)

NextSession ==
    \/ disconnectConversation
    \/ \E i \in OpIds : DisconnectEndReturns(i)
    \/ \E i \in OpIds : DisconnectInterruptReturns(i)
    \/ \E id \in ItemIds :
           \/ ConversationUpdated(id, TRUE, "in_progress", "assistant", TRUE)
           \/ ConversationUpdated(id, FALSE, "completed", "assistant", TRUE)
    \/ \E u \in 1..MaxUpdates : DecodeResolves(u)
    \/ PlayerPlays
    \/ AvatarTimerFires
    \/ \E value \in MemoryValues : ToolsBelow(MaxTools) /\ set_memory("favorite_color", value)
    \/ ToolsBelow(MaxTools) /\ get_weather("San Francisco")
    \/ \E t \in 1..MaxTools, ok \in BOOLEAN : WeatherFetchSettles(t, ok)
    \/ \E t \in 1..MaxTools : WeatherJsonResolves(t)

SpecSession == InitSession /\ [][NextSession]_vars

(***************************************************************************)
(* Disconnect on a connected page amid the event log, one response without *)
(* a recording to decode, and the tools with the forecast always fetched.  *)
(***************************************************************************)
NextReset ==
    \/ disconnectConversation
    \/ \E i \in OpIds : DisconnectEndReturns(i)
    \/ \E i \in OpIds : DisconnectInterruptReturns(i)
    \/ ConversationUpdated(1, TRUE, "in_progress", "assistant", TRUE)
    \/ ConversationUpdated(1, FALSE, "completed", "assistant", FALSE)
    \/ PlayerPlays
    \/ AvatarTimerFires
    \/ RealtimeEvent(T_SESSION_UPDATED, <<>>, 0)
    \/ ToolsBelow(MaxTools) /\ set_memory("favorite_color", "blue")
    \/ ToolsBelow(MaxTools) /\ get_weather("San Francisco")
    \/ \E t \in 1..MaxTools : WeatherFetchSettles(t, TRUE)
    \/ \E t \in 1..MaxTools : WeatherJsonResolves(t)

SpecReset == InitSession /\ [][NextReset]_vars

(***************************************************************************)
(* The memory tool in manual mode, across disconnects and connects by the  *)
(* button, which offers disconnect while the page is connected.            *)
(***************************************************************************)
NextMemory ==
    \/ \E key \in MemoryKeys, value \in MemoryValues : set_memory(key, value)
    \/ isConnected /\ disconnectConversation
    \/ \E i \in OpIds : DisconnectEndReturns(i)
    \/ \E i \in OpIds : DisconnectInterruptReturns(i)
    \/ connectConversation
    \/ \E i \in OpIds : BeginResolves(i)
    \/ \E i \in OpIds : SinkResolves(i)
    \/ \E i \in OpIds : OpenResolves(i)

SpecMemory == InitManual /\ [][NextMemory]_vars

(***************************************************************************)
(* The weather tool on a connected page, amid events and response audio.   *)
(***************************************************************************)
NextWeather ==
    \/ \E location \in Locations : get_weather(location)
    \/ \E t \in 1..MaxToolCalls, ok \in BOOLEAN : WeatherFetchSettles(t, ok)
    \/ \E t \in 1..MaxToolCalls : WeatherJsonResolves(t)
    \/ \E t \in 1..MaxToolCalls : WeatherJsonFails(t)
    \/ RealtimeEvent(T_SESSION_UPDATED, <<>>, 0)
    \/ ConversationUpdated(1, TRUE, "in_progress", "assistant", TRUE)

SpecWeather == InitAudio /\ [][NextWeather]_vars

(***************************************************************************)
(* The mount of the page and the relay process, from before either runs,   *)
(* with or without a relay configured and whatever key is stored.          *)
(***************************************************************************)
InitEdge ==
    /\ PageConstructed("none")
    /\ \E url \in RelayUrls, stored \in StoredKeys : boot = Unmounted(url, stored)
    /\ relay = RelayOff

NextEdge ==
    \/ \E answer \in PromptAnswers : InitApiKey(answer)
    \/ InitClient
    \/ Render
    \/ RelayListens
    \/ RelayAccepts
    \/ OutboundOpens
    \/ \E f \in Frames : ClientSends(f)
    \/ \E f \in Frames : UpstreamSends(f)
    \/ ForwardUp
    \/ ForwardDown
    \/ RelayCloses

SpecEdge == InitEdge /\ [][NextEdge]_vars

(***************************************************************************)
(* The manual/vad toggle where pausing or starting capture may fail.       *)
(***************************************************************************)
NextToggle ==
    \/ \E value \in Modes : changeTurnEndType(value)
    \/ \E i \in 1..MaxSwitches : SwitchPauseReturns(i)
    \/ \E i \in 1..MaxSwitches : SwitchRecordReturns(i)
    \/ \E i \in 1..MaxSwitches : SwitchPauseRejects(i)
    \/ \E i \in 1..MaxSwitches : SwitchRecordRejects(i)
    \/ startRecording
    \/ \E c \in 1..MaxCalls : StartInterruptReturns(c)
    \/ \E c \in 1..MaxCalls : RecordReturns(c)
    \/ appendInputAudio
    \/ stopRecording
    \/ \E c \in 1..MaxCalls : PauseReturns(c)

SpecToggle == InitMode /\ [][NextToggle]_vars

(***************************************************************************)
(* The avatar: the events and the item updates that set it, and its timer. *)
(***************************************************************************)
NextAvatar ==
    \/ \E t \in EventTypes, turn \in 0..MaxEvents :
           RealtimeEvent(t, IF t = T_TRANSCRIPT THEN <<" ">> ELSE <<>>, turn)
    \/ ConversationUpdated(1, TRUE, "in_progress", "assistant", TRUE)
    \/ ConversationUpdated(1, FALSE, "completed", "assistant", FALSE)
    \/ AvatarTimerFires

SpecAvatar == InitAudio /\ [][NextAvatar]_vars

(***************************************************************************)
(* The deletion of items on a connected page.                              *)
(***************************************************************************)
NextDelete ==
    \/ \E id \in ItemIds, status \in {"in_progress", "completed"}, hasAudio \in BOOLEAN :
           ConversationUpdated(id, FALSE, status, "assistant", hasAudio)
    \/ \E u \in 1..MaxUpdates : DecodeResolves(u)
    \/ AvatarTimerFires
    \/ \E id \in ItemIds : deleteConversationItem(id)
    \/ \E id \in ItemIds, status \in {"in_progress", "completed"}, hasAudio \in BOOLEAN :
           ItemDeleted(id, status, "assistant", hasAudio)

SpecDelete == InitAudio /\ [][NextDelete]_vars

(***************************************************************************)
(* Properties of the event log.                                            *)
(***************************************************************************)
\* the arrivals whose handler has ended, by return or by throw
Ended(k) == handler[k] \in {"done", "threw"}

\* the context lookup of arrival k failed at the network or with a non-OK status
LookupFailed(k) == lookup[k] \in {"netfail", "httperr"}

\* the page sent an injected user message for arrival k
Injected(k) ==
    \E i \in 1..Len(sent) : sent[i].type = "user_message" /\ sent[i].for = k

\* C1: an event delivered to the log whose type is that of the newest entry
\* is merged into that entry: the log keeps its length, the entry keeps its
\* type and identity and its count grows by exactly one; an event of any
\* other type is appended as a new entry; in both cases every older entry
\* is left as it was, and a step that delivers nothing leaves the log alone.
C1_CoalesceNewestOnly ==
    [][/\ \A k \in logged' \ logged :
              LET t == arrivals'[k].type
                  n == Len(realtimeEvents)
              IN  IF n > 0 /\ realtimeEvents[n].type = t
                  THEN /\ Len(realtimeEvents') = n
                       /\ realtimeEvents'[n] = [realtimeEvents[n] EXCEPT !.count = @ + 1]
                       /\ \A i \in 1..(n - 1) : realtimeEvents'[i] = realtimeEvents[i]
                  ELSE realtimeEvents' = Append(realtimeEvents, EntryOf(k, t))
       /\ logged' = logged => realtimeEvents' = realtimeEvents
      ]_vars

\* C1 witness: the log holds an entry two events were merged into, after an
\* entry of another type
C1_Witness ==
    \E i \in 2..Len(realtimeEvents) :
        /\ realtimeEvents[i].count >= 1
        /\ realtimeEvents[i - 1].type # realtimeEvents[i].type

\* C2: the log is ordered by arrival: of two entries, the one that stands
\* first is the one whose event arrived first.
C2_OrderedByArrival ==
    \A i, j \in 1..Len(realtimeEvents) :
        i < j => realtimeEvents[i].seq < realtimeEvents[j].seq

\* C3: a context lookup that fails is swallowed: the handler of the
\* completed transcription does not throw, and the event is in the log.
C3_LookupFailureSwallowed ==
    \A k \in 1..Len(arrivals) :
        LookupFailed(k) => handler[k] # "threw" /\ k \in logged

\* C5: once the handler of a completed transcription has ended, a user
\* message was injected for it exactly if the lookup returned non-empty text.
C5_InjectedIffText ==
    \A k \in Turns : Ended(k) => (Injected(k) <=> lookup[k] = "text")

\* C6: an injected context message (non-empty text) is sent before the
\* response to its user turn starts.
C6_InjectedBeforeResponse ==
    \A i \in 1..Len(sent) :
        sent[i].type = "user_message" /\ sent[i].text # "" =>
            ~ \E j \in 1..Len(arrivals) :
                  /\ arrivals[j].type = T_RESPONSE_CREATED
                  /\ arrivals[j].turn = sent[i].for
                  /\ arrivals[j].at < sent[i].at

\* C7: processing a response-completed event schedules the delayed
\* transition of the avatar to idle.
C7_IdleScheduledOnCompleted ==
    [][Len(arrivals') > Len(arrivals)
       /\ arrivals'[Len(arrivals')].type = T_RESPONSE_COMPLETED
       => avatarTimer' = <<"idle">>]_vars

\* C4: in manual mode, once the handler of the completed transcription of
\* audio that stopRecording committed has ended, a response was requested
\* for that turn.
C4_ResponseRequested ==
    \A k \in Turns :
        turnDetection = "none" /\ arrivals[k].turn \in Commits /\ Ended(k) => Requested(k)

(***************************************************************************)
(* Properties of interruption and playback.                                *)
(***************************************************************************)
\* the cancellations the 'conversation.interrupted' handler i has sent
CancelsOf(i) ==
    {m \in 1..Len(sent) :
        sent[m].type = "response.cancel" /\ sent[m].by = "interrupted" /\ sent[m].for = i}

\* a stop offset of the track was read and reported to the session
Reported(trackId) ==
    \E m \in 1..Len(sent) : sent[m].type = "response.cancel" /\ sent[m].trackId = trackId

\* the chunks of a list of deltas
RECURSIVE Chunks(_)
Chunks(deltas) ==
    IF deltas = <<>> THEN <<>> ELSE <<Head(deltas).chunk>> \o Chunks(Tail(deltas))

Live(delta) == ~delta.stopped

\* C8: an interrupted handler that found a track playing has stopped it
\* (nothing of the track is left to render), sends exactly one cancellation,
\* which carries the track and the offset interrupt() returned, and ends
\* with the avatar idle; one that found no track playing sends none.
C8_InterruptCancelsOnce ==
    /\ [](\A i \in 1..Len(interrupts) :
             IF interrupts[i].trackId # 0 /\ interrupts[i].pc # "interrupt"
             THEN /\ Cardinality(CancelsOf(i)) = 1
                  /\ \A m \in CancelsOf(i) :
                         /\ sent[m].trackId = interrupts[i].trackId
                         /\ sent[m].offset = interrupts[i].offset
                  /\ \A q \in (played + 1)..Len(queue) :
                         queue[q].trackId # interrupts[i].trackId
             ELSE CancelsOf(i) = {})
    /\ [][\A i \in 1..Len(interrupts) :
             interrupts[i].pc # "done" /\ interrupts'[i].pc = "done"
                 => avatarState' = "idle"]_vars

\* C8 witness: an interrupted handler has ended that stopped a track of
\* which something had been rendered, and another that found none playing
C8_Witness ==
    \E i, j \in 1..Len(interrupts) :
        /\ interrupts[i].pc = "done" /\ interrupts[i].trackId # 0
        /\ interrupts[i].offset > 0
        /\ interrupts[j].pc = "done" /\ interrupts[j].trackId = 0

\* C9: once the stop offset of a track has been reported, the player takes
\* no further chunk for that track.
C9_NoAppendAfterReport ==
    [][\A id \in ItemIds : Reported(id) => appended'[id] = appended[id]]_vars

\* C9 witness: a delta arrived for a track whose stop offset had been
\* reported, and the track did not take it
C9_Witness ==
    \E id \in ItemIds :
        /\ Reported(id)
        /\ arrived[id] # <<>>
        /\ arrived[id][Len(arrived[id])].stopped
        /\ Len(appended[id]) < Len(arrived[id])

CommitsIn(s, c) ==
    {m \in 1..Len(s) :
        /\ s[m].type = "input_audio_buffer.commit"
        /\ s[m].by = "stopRecording"
        /\ s[m].for = c}

\* call c, of the given kind, ends in this step
CallEnds(c, kind) ==
    /\ calls[c].kind = kind
    /\ calls[c].pc # "done"
    /\ calls'[c].pc = "done"

StartCancelsOf(c) ==
    {m \in 1..Len(sent) :
        /\ sent[m].type = "response.cancel"
        /\ sent[m].by = "startRecording"
        /\ sent[m].for = c}

\* C12: startRecording stops the track that is playing at the call, and
\* when it found one it has sent the one matching cancellation before it
\* asks capture to resume; no frame is appended to the input audio buffer
\* while a track that was playing at a startRecording call is playing.
C12_InterruptBeforeCapture ==
    /\ [](\A c \in 1..Len(calls) :
             calls[c].kind = "start" /\ calls[c].pc \in {"record", "done"} =>
                 IF calls[c].trackId # 0
                 THEN /\ Cardinality(StartCancelsOf(c)) = 1
                      /\ \A m \in StartCancelsOf(c) :
                             /\ sent[m].trackId = calls[c].trackId
                             /\ sent[m].offset = calls[c].offset
                 ELSE StartCancelsOf(c) = {})
    /\ [][/\ Len(calls') > Len(calls) /\ calls'[Len(calls')].kind = "start"
              => /\ calls'[Len(calls')].trackId = Playing(Player)
                 /\ \A q \in (played' + 1)..Len(queue') :
                        queue'[q].trackId # Playing(Player)
          /\ frames' > frames
              => \A c \in 1..Len(calls) :
                     calls[c].kind = "start" /\ calls[c].trackId # 0
                         => Playing(Player) # calls[c].trackId
         ]_vars

\* C12 witness: a startRecording that stopped a track has ended, a frame
\* was captured after it, and a delta of the stopped track came after the stop
C12_Witness ==
    \E c \in 1..Len(calls) :
        /\ calls[c].kind = "start" /\ calls[c].pc = "done"
        /\ calls[c].trackId # 0
        /\ frames > 0
        /\ \E d \in 1..Len(arrived[calls[c].trackId]) :
               arrived[calls[c].trackId][d].stopped

(***************************************************************************)
(* Properties of the turn-detection mode.                                  *)
(***************************************************************************)
\* C13: whenever a mode switch applies the new turn-detection configuration
\* to the session, capture is not recording: any active capture was paused
\* first.
C13_PausedWhenApplied ==
    \A i \in OpsOf("switch") : ops[i].applied # "recording"

\* the switch i and the one before it are a round trip from manual with
\* capture not recording to automatic and back, the switch back made when
\* no call was in flight, and no call was made since
RoundTrip(i) ==
    /\ i >= 2 /\ i = Len(ops)
    /\ ops[i - 1].kind = "switch" /\ ops[i - 1].value = "server_vad"
    /\ ops[i - 1].mode = "none" /\ ops[i - 1].status # "recording"
    /\ ops[i].kind = "switch" /\ ops[i].value = "none"
    /\ ops[i].quiet
    /\ ops[i].pc = "done"
    /\ Len(calls) = ops[i].ncalls

C15_NoPushToTalkUnderAutomatic ==
    [][/\ \A m \in (Len(sent) + 1)..Len(sent') :
              sent'[m].type = "input_audio_buffer.commit" => turnDetection' # "server_vad"
       /\ \A c \in 1..Len(calls) :
              CallEnds(c, "stop") \/ CallEnds(c, "start") => turnDetection' # "server_vad"
      ]_vars

\* the greetings sent by call i of connectConversation
GreetingsOf(i) ==
    {m \in 1..Len(sent) : /\ sent[m].type = "user_message"
                          /\ sent[m].by = "connectConversation"
                          /\ sent[m].for = i
                          /\ sent[m].text = "Hello!"}

\* call i, the last call made, is a connect that has ended without a throw
\* and was made while no other call was in flight
Connects(i) ==
    /\ i = Len(ops)
    /\ ops[i].kind = "connect"
    /\ ops[i].pc = "done"
    /\ ops[i].quiet

Unrendered(pl, trackId) ==
    {n \in (pl.played + 1)..Len(pl.queue) : pl.queue[n].trackId = trackId}

\* call i is a disconnect made while no handler of the client was suspended
Disconnects(i) ==
    /\ ops[i].kind = "disconnect"
    /\ ops[i].calm

C18_NoStaleContinuation ==
    [][(/\ OpsOf("disconnect") # {}
        /\ ~sessionOpen
        /\ updater' # updater \/ toolCalls' # toolCalls)
       => /\ items' = items
          /\ memoryKv' = memoryKv
          /\ marker' = marker
          /\ avatarState' = avatarState
      ]_vars

\* call i, the last call made, is a connect that threw and was made while no
\* other call was in flight
ConnectFails(i) ==
    /\ i = Len(ops)
    /\ ops[i].kind = "connect"
    /\ ops[i].pc = "threw"
    /\ ops[i].quiet

\* C19: after a connect that failed at any of its steps, what it had
\* acquired is released: the capture device, the output sink and the
\* session; and the connected flag is false.
C19_FailedConnectReleases ==
    \A i \in 1..Len(ops) :
        ConnectFails(i) =>
            /\ recorderStatus = "ended"
            /\ ~playerOpen
            /\ ~sessionOpen
            /\ ~isConnected

\* C20: a call of deleteConversationItem for an item of the local list
\* removes the entry of that item from the list, leaves the other entries in
\* their order, and sends exactly one deletion request for the item.
C20_DeleteRemovesOne ==
    [][(Len(ops') = Len(ops) + 1 /\ ops'[Len(ops')].kind = "delete")
       => LET id == ops'[Len(ops')].value
          IN  /\ InList(items, id)
              /\ items' = Without(items, id)
              /\ Len(items') = Len(items) - 1
              /\ Cardinality(DeleteRequests(sent', id))
                     = Cardinality(DeleteRequests(sent, id)) + 1
      ]_vars

\* the set_memory calls for key since the last disconnect
WritesOf(key) ==
    {t \in 1..Len(toolCalls) : /\ toolCalls[t].name = "set_memory"
                               /\ toolCalls[t].epoch = Epoch
                               /\ toolCalls[t].key = key}

\* C21: every set_memory call has returned its success acknowledgement, and
\* the memory map holds for every key the value of the latest call for that
\* key since the last disconnect, and nothing for a key without such a call.
C21_LastWriteWins ==
    /\ \A t \in 1..Len(toolCalls) :
           toolCalls[t].name = "set_memory" =>
               toolCalls[t].pc = "done" /\ toolCalls[t].result = "ok"
    /\ \A key \in MemoryKeys :
           memoryKv[key] = IF WritesOf(key) = {}
                           THEN "unset"
                           ELSE toolCalls[Last(WritesOf(key))].value

\* C21 witness: after a disconnect and a connect, a key was written twice
\* with different values and the other key not at all
C21_Witness ==
    /\ Epoch > 0
    /\ Len(toolCalls) = 2
    /\ \A t \in 1..2 : toolCalls[t].epoch = Epoch /\ toolCalls[t].key = "favorite_color"
    /\ toolCalls[1].value = "blue"
    /\ toolCalls[2].value = "red"
    /\ memoryKv["favorite_color"] = "red"
    /\ memoryKv["name"] = "unset"

\* the get_weather calls
WeatherCalls == {t \in 1..Len(toolCalls) : toolCalls[t].name = "get_weather"}

\* a get_weather call is pending or has failed
WeatherPendingOrFailed ==
    \E t \in WeatherCalls : toolCalls[t].pc \in {"fetch", "json", "threw"}

C23_NoKeyBesideRelay ==
    /\ boot.url # "" =>
           /\ boot.client.apiKey = ""
           /\ ~boot.prompted
    /\ relay.conn # "none" => relay.inboundAuth = ""
    /\ relay.outboundAuth \in {"", relay.credential}

\* C23 witness: the page is mounted with a relay configured while the
\* relay's own key is stored locally, and the relay serves its connection
C23_Witness ==
    /\ boot.pc = "mounted"
    /\ boot.url # ""
    /\ boot.stored = RelayKey
    /\ boot.apiKey = RelayKey
    /\ boot.client.made
    /\ relay.conn = "open"
    /\ relay.outboundAuth = RelayKey

\* the list s begins with the list p
IsPrefix(p, s) == Len(p) <= Len(s) /\ SubSeq(s, 1, Len(p)) = p

\* C24: the frames forwarded upstream are the frames the client sent, as
\* they were sent and in their order, without gap, repetition or merge, up to
\* the frames still in transit; likewise towards the client.
C24_PassThrough ==
    /\ relay.gotUp \o relay.inQ = relay.sentUp
    /\ relay.gotDown \o relay.outQ = relay.sentDown
    /\ IsPrefix(relay.gotUp, relay.sentUp)
    /\ IsPrefix(relay.gotDown, relay.sentDown)

\* C24 witness: two different frames went each way and all were forwarded
C24_Witness ==
    /\ relay.sentUp = <<"a", "b">> /\ relay.gotUp = <<"a", "b">>
    /\ relay.sentDown = <<"b", "a">> /\ relay.gotDown = <<"b", "a">>

\* the delays setAvatarStateSafely is called with
HoldTimes == {0, 300, 500}

\* C25: at most one delayed transition of the avatar is pending, and any
\* request to set the avatar, immediate or delayed, leaves pending only the
\* delayed transition it asks for itself, so that an older one cannot fire.
C25_OnePendingTransition ==
    /\ Len(avatarTimer) <= 1
    /\ \A s \in AvatarStates, holdMs \in HoldTimes :
           setAvatarStateSafely(Avatar, s, holdMs).timer
               = IF holdMs > 0 THEN <<s>> ELSE <<>>

\* C25 witness: a delayed transition to idle is pending while the avatar
\* talks, so that the next request has one to cancel
C25_Witness ==
    /\ avatarTimer = <<"idle">>
    /\ avatarTimeoutRef
    /\ avatarState = "talk"

\* C26: in manual mode, once a stopRecording was invoked and no
\* startRecording after it, and every call has run to its end, capture is
\* not recording; also when the stopRecording was invoked while a
\* startRecording was suspended.
C26_PausedAfterStop ==
    /\ Len(calls) > 0
    /\ calls[Len(calls)].kind = "stop"
    /\ \A c \in 1..Len(calls) : calls[c].pc = "done"
    => recorderStatus # "recording"

\* C27: in every reachable state canPushToTalk is true exactly when the
\* session's turn-detection mode is manual, also after a mode switch in
\* which pausing or starting capture failed.
C27_PushToTalkIffManual ==
    canPushToTalk <=> turnDetection = "none"

====
